---- MODULE Spec2Model ----
(***************************************************************************)
(* The buffer cache (kernel/bio.c) and the per-CPU physical page allocator *)
(* (kernel/kalloc.c) of xv6, as state machines.  Every spinlock acquire is *)
(* a step of its own; the statements a thread executes while it holds a    *)
(* spinlock up to the matching release are one step.                       *)
(***************************************************************************)
EXTENDS Integers, Sequences, FiniteSets, TLC

\* ---------------------------------------------------------------- bounds
\* Scaled-down sizes (the kernel is built with NBUCKETS 13, NBUF 30, NCPU 8).
NBUCKETS == 3
NBUF == 2
NThreads == 2
MaxDev == 1
MaxBlock == 2
MaxData == 1
MaxPin == 1
NCPU == 3
NPages == 2
MaxSame == 2

Threads == 1..NThreads
Bufs == 0..(NBUF - 1)
Buckets == 0..(NBUCKETS - 1)
Devs == 1..MaxDev
Blocks == 0..MaxBlock
Data == 0..MaxData
\* Block numbers that all hash to bucket 0.
SameBucket == {n * NBUCKETS : n \in 0..MaxSame}
Ids == Devs \X (Blocks \cup SameBucket)
\* The block numbers whose payload the callers change.
Written == {MaxBlock}
NoBuf == NBUF
NoThread == 0

VARIABLES
  \* bcache and the buffers (struct buf)
  hashbucket,    \* hashbucket[k]: bucket k's list, from head.next to head.prev
  dev, blockno, valid, refcnt, data,   \* fields of every struct buf
  slock,         \* b->lock (sleeplock): the holding thread, or NoThread
  lock,          \* bcache.lock[k]: the holding thread, or NoThread
  overall_lock,  \* bcache.overall_lock: the holding thread, or NoThread
  disk,          \* the block device behind virtio_disk_rw
  \* one kernel thread per element of Threads
  pc, tdev, tblk, tb, ti, panicmsg,
  \* history variables (no effect on the program)
  pins,          \* bpin calls on a buffer not yet matched by bunpin
  bw,            \* the buffer holds the content last written to its block
                 \* with bwrite
  wev,           \* the block's last written copy was released and evicted
  expect,        \* the thread's bread began when wev held for its block
  rel,           \* rel[k]: the buffers of bucket k that brelse was called on
                 \* since they came into the bucket, the latest call first
  relz,          \* relz[k]: the same for the brelse calls that dropped
                 \* refcnt to 0
  \* kmems[NCPU] and the pages
  freelist,      \* kmems[c].freelist: the pages from the list head on
  klock,         \* kmems[c].lock: the holding thread, or NoThread
  kpc, kid, kr, ki,   \* per thread: position, id = cpuid(), r (or pa), i
  owned,         \* the pages kalloc returned to the thread, not yet freed
  \* history variables of the allocator
  ksnap,         \* <<the free lists when the thread's kalloc began>>, while
                 \* no other thread has changed a list since; << >> otherwise
  palloc,        \* the core whose kalloc returned the page
  base,          \* the free-list lengths when the run of pairs began
                 \* (palloc and base are kept while cross is false)
  delta,         \* per core: pages it took from peers minus pages peers took
                 \* from it since the run began (kept while cross is false)
  cross,         \* a page was freed on another core than it was allocated on
  kfull          \* some free list has held a page at every moment since the
                 \* thread's kalloc began

bvars == <<hashbucket, dev, blockno, valid, refcnt, data, slock, lock,
           overall_lock, disk, pc, tdev, tblk, tb, ti, panicmsg,
           pins, bw, wev, expect>>

lvars == <<rel, relz>>

kvars == <<freelist, klock, kpc, kid, kr, ki, owned, ksnap, palloc, base,
           delta, cross, kfull>>

\* ------------------------------------------------------------- helpers
hash(n) == n % NBUCKETS

\* An unlink that leaves the buffer linked
MutNoUnlink(s, b) == s

\* The list with b unlinked (b->next->prev = b->prev; b->prev->next = b->next).
Unlink(s, b) == SelectSeq(s, LAMBDA x : x # b)

\* History: the sequence without b, and with b put first.
Without(s, b) == SelectSeq(s, LAMBDA x : x # b)

Latest(s, b) == <<b>> \o Without(s, b)

InList(s, b) == \E k \in 1..Len(s) : s[k] = b

\* Buckets after binit: buffer i is pushed at the head of bucket hash(i).
RECURSIVE InitBucket(_, _)
InitBucket(k, n) ==
  IF n = 0 THEN << >>
  ELSE IF hash(n - 1) = k THEN <<n - 1>> \o InitBucket(k, n - 1)
       ELSE InitBucket(k, n - 1)

\* holdingsleep(&b->lock): the lock is held, and by the calling thread.
holdingsleep(b, t) == slock[b] = t

\* acquiresleep(&b->lock) goes on when the lock is free.
SleepFree(b) == slock[b] = NoThread

\* bwrite and brelse without their check
MutNoCheck(b, t) == FALSE

\* if (!holdingsleep(&b->lock)) of bwrite and brelse
NotHolding(b, t) == ~holdingsleep(b, t)

\* A scan that takes a buffer whatever its refcnt
MutFreeAlways(b) == TRUE

\* A scan that takes a buffer with one reference left
MutFreeAtOne(b) == refcnt[b] <= 1

\* if (b->refcnt == 0) of the two scans for an unused buffer
IsFree(b) == refcnt[b] = 0

Matches(b, d, n) == dev[b] = d /\ blockno[b] = n

\* First buffer from head.next on that caches (d, n), or NoBuf.
FindCached(k, d, n) ==
  LET s == hashbucket[k]
      hits == {j \in 1..Len(s) : Matches(s[j], d, n)}
  IN IF hits = {} THEN NoBuf
     ELSE s[CHOOSE j \in hits : \A j2 \in hits : j <= j2]

\* A scan for an unused buffer that starts at head.next
MutFindFreeFromHead(k) ==
  LET s == hashbucket[k]
      free == {j \in 1..Len(s) : IsFree(s[j])}
  IN IF free = {} THEN NoBuf
     ELSE s[CHOOSE j \in free : \A j2 \in free : j <= j2]

\* First buffer from head.prev on with refcnt == 0, or NoBuf.
FindFree(k) ==
  LET s == hashbucket[k]
      free == {j \in 1..Len(s) : IsFree(s[j])}
  IN IF free = {} THEN NoBuf
     ELSE s[CHOOSE j \in free : \A j2 \in free : j >= j2]

\* A global scan that does not skip bucket key
MutNoSkip(i, key) == i

\* The index the global scan looks at next: bucket key is skipped.
Skip(i, key) == IF i = key THEN i + 1 ELSE i

\* bget that hashes the device number
MutKeyDev(t) == hash(tdev[t])

\* key = hash(blockno) of the thread's bget
Key(t) == hash(tblk[t])

\* History: a copy of block id that had been written and released is evicted.
Evict(b) ==
  IF bw[b] /\ dev[b] \in Devs
  THEN [wev EXCEPT ![<<dev[b], blockno[b]>>] = TRUE]
  ELSE wev

\* History: block id is written again (in buffer b, or from it to the device):
\* no other buffer holds the last content written.
Touch(id, b, written) ==
  /\ wev' = [wev EXCEPT ![id] = FALSE]
  /\ bw' = [x \in Bufs |->
              IF x = b THEN written
              ELSE IF <<dev[x], blockno[x]>> = id THEN FALSE ELSE bw[x]]
  /\ expect' = [u \in Threads |->
                  IF <<tdev[u], tblk[u]>> = id THEN FALSE ELSE expect[u]]

\* ---------------------------------------------------------------- Init
BInit ==
  /\ hashbucket = [k \in Buckets |-> InitBucket(k, NBUF)]
  /\ dev = [b \in Bufs |-> 0]
  /\ blockno = [b \in Bufs |-> 0]
  /\ valid = [b \in Bufs |-> 0]
  /\ refcnt = [b \in Bufs |-> 0]
  /\ data = [b \in Bufs |-> 0]
  /\ slock = [b \in Bufs |-> NoThread]
  /\ lock = [k \in Buckets |-> NoThread]
  /\ overall_lock = NoThread
  /\ disk = [id \in Ids |-> 0]
  /\ pc = [t \in Threads |-> "idle"]
  /\ tdev = [t \in Threads |-> 0]
  /\ tblk = [t \in Threads |-> 0]
  /\ tb = [t \in Threads |-> NoBuf]
  /\ ti = [t \in Threads |-> 0]
  /\ panicmsg = [t \in Threads |-> ""]
  /\ pins = [b \in Bufs |-> 0]
  /\ bw = [b \in Bufs |-> FALSE]
  /\ wev = [id \in Ids |-> FALSE]
  /\ expect = [t \in Threads |-> FALSE]
  /\ rel = [k \in Buckets |-> << >>]
  /\ relz = [k \in Buckets |-> << >>]

\* ------------------------------------------------------------ bread/bget
\* A thread calls bread(d, n).
Bread(t, d, n) ==
  /\ pc[t] = "idle"
  /\ pc' = [pc EXCEPT ![t] = "bget"]
  /\ tdev' = [tdev EXCEPT ![t] = d]
  /\ tblk' = [tblk EXCEPT ![t] = n]
  /\ expect' = [expect EXCEPT ![t] = wev[<<d, n>>]]
  /\ UNCHANGED <<hashbucket, dev, blockno, valid, refcnt, data, slock, lock,
                 overall_lock, disk, tb, ti, panicmsg, pins, bw, wev>>
  /\ UNCHANGED <<kvars, lvars>>

\* A bget that goes on only while nobody holds the global lock
MutAcquireNeedsGlobal(t) ==
  /\ pc[t] = "bget"
  /\ overall_lock = NoThread
  /\ lock[Key(t)] = NoThread
  /\ lock' = [lock EXCEPT ![Key(t)] = t]
  /\ pc' = [pc EXCEPT ![t] = "scan"]
  /\ UNCHANGED <<hashbucket, dev, blockno, valid, refcnt, data, slock,
                 overall_lock, disk, tdev, tblk, tb, ti, panicmsg,
                 pins, bw, wev, expect>>
  /\ UNCHANGED <<kvars, lvars>>

\* acquire(&bcache.lock[key])
BgetAcquire(t) ==
  /\ pc[t] = "bget"
  /\ lock[Key(t)] = NoThread
  /\ lock' = [lock EXCEPT ![Key(t)] = t]
  /\ pc' = [pc EXCEPT ![t] = "scan"]
  /\ UNCHANGED <<hashbucket, dev, blockno, valid, refcnt, data, slock,
                 overall_lock, disk, tdev, tblk, tb, ti, panicmsg,
                 pins, bw, wev, expect>>
  /\ UNCHANGED <<kvars, lvars>>

\* A hit that goes on to acquiresleep with the bucket lock still held
MutHitKeepsLock(t) ==
  LET b == FindCached(Key(t), tdev[t], tblk[t]) IN
  /\ pc[t] = "scan"
  /\ b # NoBuf
  /\ refcnt' = [refcnt EXCEPT ![b] = @ + 1]
  /\ tb' = [tb EXCEPT ![t] = b]
  /\ pc' = [pc EXCEPT ![t] = "sleep"]
  /\ UNCHANGED <<hashbucket, dev, blockno, valid, data, slock, lock,
                 overall_lock, disk, tdev, tblk, ti, panicmsg, pins, bw, wev,
                 expect>>
  /\ UNCHANGED <<kvars, lvars>>

\* The block is cached in its bucket: refcnt++, release the bucket lock.
BgetHit(t) ==
  LET b == FindCached(Key(t), tdev[t], tblk[t]) IN
  /\ pc[t] = "scan"
  /\ b # NoBuf
  /\ refcnt' = [refcnt EXCEPT ![b] = @ + 1]
  /\ lock' = [lock EXCEPT ![Key(t)] = NoThread]
  /\ tb' = [tb EXCEPT ![t] = b]
  /\ pc' = [pc EXCEPT ![t] = "sleep"]
  /\ UNCHANGED <<hashbucket, dev, blockno, valid, data, slock, overall_lock,
                 disk, tdev, tblk, ti, panicmsg, pins, bw, wev, expect>>
  /\ UNCHANGED <<kvars, lvars>>

\* Not cached, an unused buffer in the bucket: repurpose it in place.
BgetReuse(t) ==
  LET b == FindFree(Key(t)) IN
  /\ pc[t] = "scan"
  /\ FindCached(Key(t), tdev[t], tblk[t]) = NoBuf
  /\ b # NoBuf
  /\ dev' = [dev EXCEPT ![b] = tdev[t]]
  /\ blockno' = [blockno EXCEPT ![b] = tblk[t]]
  /\ valid' = [valid EXCEPT ![b] = 0]
  /\ refcnt' = [refcnt EXCEPT ![b] = 1]
  /\ lock' = [lock EXCEPT ![Key(t)] = NoThread]
  /\ tb' = [tb EXCEPT ![t] = b]
  /\ pc' = [pc EXCEPT ![t] = "sleep"]
  /\ bw' = [bw EXCEPT ![b] = FALSE]
  /\ wev' = Evict(b)
  /\ UNCHANGED <<hashbucket, data, slock, overall_lock, disk, tdev, tblk,
                 ti, panicmsg, pins, expect>>
  /\ UNCHANGED <<kvars, lvars>>

\* A miss that goes on to the global lock with the bucket lock still held
MutMissKeepsLock(t) ==
  /\ pc[t] = "scan"
  /\ FindCached(Key(t), tdev[t], tblk[t]) = NoBuf
  /\ FindFree(Key(t)) = NoBuf
  /\ pc' = [pc EXCEPT ![t] = "global"]
  /\ UNCHANGED <<hashbucket, dev, blockno, valid, refcnt, data, slock, lock,
                 overall_lock, disk, tdev, tblk, tb, ti, panicmsg,
                 pins, bw, wev, expect>>
  /\ UNCHANGED <<kvars, lvars>>

\* Not cached, no unused buffer in the bucket: release the bucket lock.
BgetMiss(t) ==
  /\ pc[t] = "scan"
  /\ FindCached(Key(t), tdev[t], tblk[t]) = NoBuf
  /\ FindFree(Key(t)) = NoBuf
  /\ lock' = [lock EXCEPT ![Key(t)] = NoThread]
  /\ pc' = [pc EXCEPT ![t] = "global"]
  /\ UNCHANGED <<hashbucket, dev, blockno, valid, refcnt, data, slock,
                 overall_lock, disk, tdev, tblk, tb, ti, panicmsg,
                 pins, bw, wev, expect>>
  /\ UNCHANGED <<kvars, lvars>>

\* bget that starts the search of the other buckets without the global lock
MutSearchUnlocked(t) ==
  /\ pc[t] = "global"
  /\ ti' = [ti EXCEPT ![t] = Skip(0, Key(t))]
  /\ pc' = [pc EXCEPT ![t] = "loop"]
  /\ UNCHANGED <<hashbucket, dev, blockno, valid, refcnt, data, slock, lock,
                 overall_lock, disk, tdev, tblk, tb, panicmsg, pins, bw, wev,
                 expect>>
  /\ UNCHANGED <<kvars, lvars>>

\* acquire(&bcache.overall_lock); i = 0
BgetGlobal(t) ==
  /\ pc[t] = "global"
  /\ overall_lock = NoThread
  /\ overall_lock' = t
  /\ ti' = [ti EXCEPT ![t] = Skip(0, Key(t))]
  /\ pc' = [pc EXCEPT ![t] = "loop"]
  /\ UNCHANGED <<hashbucket, dev, blockno, valid, refcnt, data, slock, lock,
                 disk, tdev, tblk, tb, panicmsg, pins, bw, wev, expect>>
  /\ UNCHANGED <<kvars, lvars>>

\* The loop head of the scan: acquire(&bcache.lock[i]) for the next bucket,
\* or, all buckets done, release the global lock and panic("bget: no buffers").
BgetLoop(t) ==
  /\ pc[t] = "loop"
  /\ IF ti[t] < NBUCKETS
     THEN /\ lock[ti[t]] = NoThread
          /\ lock' = [lock EXCEPT ![ti[t]] = t]
          /\ pc' = [pc EXCEPT ![t] = "scanI"]
          /\ UNCHANGED <<overall_lock, panicmsg, ti, tdev, tblk, expect>>
     ELSE /\ overall_lock' = NoThread
          /\ pc' = [pc EXCEPT ![t] = "panic"]
          /\ panicmsg' = [panicmsg EXCEPT ![t] = "bget: no buffers"]
          /\ ti' = [ti EXCEPT ![t] = 0]
          /\ tdev' = [tdev EXCEPT ![t] = 0]
          /\ tblk' = [tblk EXCEPT ![t] = 0]
          /\ expect' = [expect EXCEPT ![t] = FALSE]
          /\ UNCHANGED lock
  /\ UNCHANGED <<hashbucket, dev, blockno, valid, refcnt, data, slock,
                 disk, tb, pins, bw, wev>>
  /\ UNCHANGED <<kvars, lvars>>

\* An unused buffer in bucket i: give it the block and unlink it.
BgetSteal(t) ==
  LET b == FindFree(ti[t]) IN
  /\ pc[t] = "scanI"
  /\ b # NoBuf
  /\ dev' = [dev EXCEPT ![b] = tdev[t]]
  /\ blockno' = [blockno EXCEPT ![b] = tblk[t]]
  /\ valid' = [valid EXCEPT ![b] = 0]
  /\ refcnt' = [refcnt EXCEPT ![b] = 1]
  /\ hashbucket' = [hashbucket EXCEPT ![ti[t]] = Unlink(@, b)]
  /\ tb' = [tb EXCEPT ![t] = b]
  /\ pc' = [pc EXCEPT ![t] = "target"]
  /\ bw' = [bw EXCEPT ![b] = FALSE]
  /\ wev' = Evict(b)
  /\ UNCHANGED <<data, slock, lock, overall_lock, disk, tdev, tblk, ti,
                 panicmsg, pins, expect>>
  /\ rel' = [rel EXCEPT ![ti[t]] = Without(@, b)]
  /\ relz' = [relz EXCEPT ![ti[t]] = Without(@, b)]
  /\ UNCHANGED kvars

\* No unused buffer in bucket i: release its lock, go on with the scan.
BgetNext(t) ==
  /\ pc[t] = "scanI"
  /\ FindFree(ti[t]) = NoBuf
  /\ lock' = [lock EXCEPT ![ti[t]] = NoThread]
  /\ ti' = [ti EXCEPT ![t] = Skip(ti[t] + 1, Key(t))]
  /\ pc' = [pc EXCEPT ![t] = "loop"]
  /\ UNCHANGED <<hashbucket, dev, blockno, valid, refcnt, data, slock,
                 overall_lock, disk, tdev, tblk, tb, panicmsg,
                 pins, bw, wev, expect>>
  /\ UNCHANGED <<kvars, lvars>>

\* acquire(&bcache.lock[key]), nested in lock[i] and the global lock
BgetTarget(t) ==
  /\ pc[t] = "target"
  /\ lock[Key(t)] = NoThread
  /\ lock' = [lock EXCEPT ![Key(t)] = t]
  /\ pc' = [pc EXCEPT ![t] = "splice"]
  /\ UNCHANGED <<hashbucket, dev, blockno, valid, refcnt, data, slock,
                 overall_lock, disk, tdev, tblk, tb, ti, panicmsg,
                 pins, bw, wev, expect>>
  /\ UNCHANGED <<kvars, lvars>>

\* Link the buffer before the head of bucket key; release the three locks.
BgetSplice(t) ==
  /\ pc[t] = "splice"
  /\ hashbucket' = [hashbucket EXCEPT ![Key(t)] = Append(@, tb[t])]
  /\ lock' = [lock EXCEPT ![Key(t)] = NoThread, ![ti[t]] = NoThread]
  /\ overall_lock' = NoThread
  /\ ti' = [ti EXCEPT ![t] = 0]
  /\ pc' = [pc EXCEPT ![t] = "sleep"]
  /\ UNCHANGED <<dev, blockno, valid, refcnt, data, slock, disk, tdev, tblk,
                 tb, panicmsg, pins, bw, wev, expect>>
  /\ UNCHANGED <<kvars, lvars>>

\* bget that returns the buffer without acquiresleep
MutReturnUnlocked(t) ==
  /\ pc[t] = "sleep"
  /\ pc' = [pc EXCEPT ![t] = "bread"]
  /\ UNCHANGED <<hashbucket, dev, blockno, valid, refcnt, data, slock, lock,
                 overall_lock, disk, tdev, tblk, tb, ti, panicmsg,
                 pins, bw, wev, expect>>
  /\ UNCHANGED <<kvars, lvars>>

\* acquiresleep(&b->lock): the thread sleeps until the lock is free.
AcquireSleep(t) ==
  /\ pc[t] = "sleep"
  /\ SleepFree(tb[t])
  /\ slock' = [slock EXCEPT ![tb[t]] = t]
  /\ pc' = [pc EXCEPT ![t] = "bread"]
  /\ UNCHANGED <<hashbucket, dev, blockno, valid, refcnt, data, lock,
                 overall_lock, disk, tdev, tblk, tb, ti, panicmsg,
                 pins, bw, wev, expect>>
  /\ UNCHANGED <<kvars, lvars>>

\* bread after bget: read the block from the device unless b->valid.
BreadCheck(t) ==
  LET b == tb[t] IN
  /\ pc[t] = "bread"
  /\ IF valid[b] = 0
     THEN /\ data' = [data EXCEPT ![b] = disk[<<dev[b], blockno[b]>>]]
          /\ valid' = [valid EXCEPT ![b] = 1]
     ELSE UNCHANGED <<data, valid>>
  /\ pc' = [pc EXCEPT ![t] = "hold"]
  /\ UNCHANGED <<hashbucket, dev, blockno, refcnt, slock, lock, overall_lock,
                 disk, tdev, tblk, tb, ti, panicmsg, pins, bw, wev, expect>>
  /\ UNCHANGED <<kvars, lvars>>

\* ------------------------------------------------- the caller's use of b
\* The holder of b, a block the callers write to, changes the payload (b->data).
Modify(t, c) ==
  LET b == tb[t] IN
  /\ pc[t] = "hold"
  /\ blockno[b] \in Written
  /\ data' = [data EXCEPT ![b] = c]
  /\ Touch(<<dev[b], blockno[b]>>, b, FALSE)
  /\ UNCHANGED <<hashbucket, dev, blockno, valid, refcnt, slock, lock,
                 overall_lock, disk, pc, tdev, tblk, tb, ti, panicmsg, pins>>
  /\ UNCHANGED <<kvars, lvars>>

\* A call f(b), f one of bwrite and brelse.
Call(t, b, f) ==
  /\ tb' = [tb EXCEPT ![t] = b]
  /\ pc' = [pc EXCEPT ![t] = f]
  /\ UNCHANGED <<hashbucket, dev, blockno, valid, refcnt, data, slock, lock,
                 overall_lock, disk, tdev, tblk, ti, panicmsg,
                 pins, bw, wev, expect>>
  /\ UNCHANGED <<kvars, lvars>>

\* The thread calls bwrite on the buffer it got from bread.
BwriteCall(t) == pc[t] = "hold" /\ Call(t, tb[t], "bwrite")

\* A thread that holds no buffer calls bwrite(b).
BwriteAny(t, b) == pc[t] = "idle" /\ Call(t, b, "bwrite")

\* The thread calls brelse on the buffer it got from bread.
BrelseCall(t) == pc[t] = "hold" /\ Call(t, tb[t], "brelse")

\* A thread that holds no buffer calls brelse(b).
BrelseAny(t, b) == pc[t] = "idle" /\ Call(t, b, "brelse")

\* panic(msg): the thread stops for good.
Panic(t, msg) ==
  /\ pc' = [pc EXCEPT ![t] = "panic"]
  /\ panicmsg' = [panicmsg EXCEPT ![t] = msg]
  /\ UNCHANGED <<hashbucket, dev, blockno, valid, refcnt, data, slock, lock,
                 overall_lock, disk, tdev, tblk, tb, ti, pins, bw, wev,
                 expect>>

\* bwrite: panic("bwrite") unless holdingsleep; virtio_disk_rw(b, 1)
Bwrite(t) ==
  LET b == tb[t] IN
  /\ pc[t] = "bwrite"
  /\ IF NotHolding(b, t)
     THEN Panic(t, "bwrite")
     ELSE /\ disk' = [disk EXCEPT ![<<dev[b], blockno[b]>>] = data[b]]
          /\ Touch(<<dev[b], blockno[b]>>, b, TRUE)
          /\ pc' = [pc EXCEPT ![t] = "hold"]
          /\ UNCHANGED <<hashbucket, dev, blockno, valid, refcnt, data, slock,
                         lock, overall_lock, tdev, tblk, tb, ti, panicmsg, pins>>
  /\ UNCHANGED <<kvars, lvars>>

\* brelse: panic("brelse") unless holdingsleep; releasesleep(&b->lock);
\* key = hash(b->blockno)
Brelse(t) ==
  LET b == tb[t] IN
  /\ pc[t] = "brelse"
  /\ IF NotHolding(b, t)
     THEN Panic(t, "brelse")
     ELSE /\ slock' = [slock EXCEPT ![b] = NoThread]
          /\ ti' = [ti EXCEPT ![t] = hash(blockno[b])]
          /\ pc' = [pc EXCEPT ![t] = "brelseAcq"]
          /\ tdev' = [tdev EXCEPT ![t] = 0]
          /\ tblk' = [tblk EXCEPT ![t] = 0]
          /\ expect' = [expect EXCEPT ![t] = FALSE]
          /\ UNCHANGED <<hashbucket, dev, blockno, valid, refcnt, data, lock,
                         overall_lock, disk, tb, panicmsg, pins, bw, wev>>
  /\ UNCHANGED <<kvars, lvars>>

\* acquire(&bcache.lock[key]) in brelse, bpin and bunpin
LockAcquire(t, from, to) ==
  /\ pc[t] = from
  /\ lock[ti[t]] = NoThread
  /\ lock' = [lock EXCEPT ![ti[t]] = t]
  /\ pc' = [pc EXCEPT ![t] = to]
  /\ UNCHANGED <<hashbucket, dev, blockno, valid, refcnt, data, slock,
                 overall_lock, disk, tdev, tblk, tb, ti, panicmsg,
                 pins, bw, wev, expect>>
  /\ UNCHANGED <<kvars, lvars>>

BrelseAcquire(t) == LockAcquire(t, "brelseAcq", "brelseCS")

\* The list of bucket k after b was unlinked from where it is and linked
\* behind the head of bucket key.
MoveToHead(k, key, b) ==
  IF k = key THEN <<b>> \o Unlink(hashbucket[k], b)
  ELSE Unlink(hashbucket[k], b)

\* A brelse that leaves refcnt as it is
MutBrelseNoDecrement(t) ==
  /\ pc[t] = "brelseCS"
  /\ lock' = [lock EXCEPT ![ti[t]] = NoThread]
  /\ pc' = [pc EXCEPT ![t] = "idle"]
  /\ tb' = [tb EXCEPT ![t] = NoBuf]
  /\ ti' = [ti EXCEPT ![t] = 0]
  /\ UNCHANGED <<hashbucket, dev, blockno, valid, refcnt, data, slock,
                 overall_lock, disk, tdev, tblk, panicmsg, pins, bw, wev,
                 expect>>
  /\ UNCHANGED <<kvars, lvars>>

\* brelse under the bucket lock: refcnt--, and at 0 move b to the list head.
BrelseDone(t) ==
  LET b == tb[t]
      key == ti[t] IN
  /\ pc[t] = "brelseCS"
  /\ refcnt' = [refcnt EXCEPT ![b] = @ - 1]
  /\ hashbucket' = IF refcnt[b] - 1 = 0
                   THEN [k \in Buckets |-> MoveToHead(k, key, b)]
                   ELSE hashbucket
  /\ lock' = [lock EXCEPT ![key] = NoThread]
  /\ pc' = [pc EXCEPT ![t] = "idle"]
  /\ tb' = [tb EXCEPT ![t] = NoBuf]
  /\ ti' = [ti EXCEPT ![t] = 0]
  /\ UNCHANGED <<dev, blockno, valid, data, slock, overall_lock, disk,
                 tdev, tblk, panicmsg, pins, bw, wev, expect>>
  /\ rel' = [rel EXCEPT ![key] = Latest(@, b)]
  /\ relz' = IF refcnt[b] - 1 = 0
             THEN [relz EXCEPT ![key] = Latest(@, b)]
             ELSE relz
  /\ UNCHANGED kvars

\* The holder of b calls bpin(b): idx = hash(b->blockno).
Bpin(t) ==
  /\ pc[t] = "hold"
  /\ pins[tb[t]] < MaxPin
  /\ ti' = [ti EXCEPT ![t] = hash(blockno[tb[t]])]
  /\ pc' = [pc EXCEPT ![t] = "bpinAcq"]
  /\ UNCHANGED <<hashbucket, dev, blockno, valid, refcnt, data, slock, lock,
                 overall_lock, disk, tdev, tblk, tb, panicmsg,
                 pins, bw, wev, expect>>
  /\ UNCHANGED <<kvars, lvars>>

BpinAcquire(t) == LockAcquire(t, "bpinAcq", "bpinCS")

\* bpin or bunpin under the bucket lock: refcnt += d; the caller goes on as
\* the holder of the buffer ("hold") or without it ("idle").
PinDone(t, from, to, d) ==
  /\ pc[t] = from
  /\ refcnt' = [refcnt EXCEPT ![tb[t]] = @ + d]
  /\ pins' = [pins EXCEPT ![tb[t]] = @ + d]
  /\ lock' = [lock EXCEPT ![ti[t]] = NoThread]
  /\ ti' = [ti EXCEPT ![t] = 0]
  /\ pc' = [pc EXCEPT ![t] = to]
  /\ tb' = [tb EXCEPT ![t] = IF to = "idle" THEN NoBuf ELSE @]
  /\ UNCHANGED <<hashbucket, dev, blockno, valid, data, slock, overall_lock,
                 disk, tdev, tblk, panicmsg, bw, wev, expect>>
  /\ UNCHANGED <<kvars, lvars>>

BpinDone(t) == PinDone(t, "bpinCS", "hold", 1)

\* The bunpin calls on b in progress.
Unpinning(b) ==
  {t \in Threads :
     /\ tb[t] = b
     /\ pc[t] \in {"bunpinAcq", "bunpinCS", "bunpinLateAcq", "bunpinLateCS"}}

\* The holder of a pinned b calls bunpin(b): idx = hash(b->blockno).
Bunpin(t) ==
  /\ pc[t] = "hold"
  /\ pins[tb[t]] > Cardinality(Unpinning(tb[t]))
  /\ ti' = [ti EXCEPT ![t] = hash(blockno[tb[t]])]
  /\ pc' = [pc EXCEPT ![t] = "bunpinAcq"]
  /\ UNCHANGED <<hashbucket, dev, blockno, valid, refcnt, data, slock, lock,
                 overall_lock, disk, tdev, tblk, tb, panicmsg,
                 pins, bw, wev, expect>>
  /\ UNCHANGED <<kvars, lvars>>

BunpinAcquire(t) == LockAcquire(t, "bunpinAcq", "bunpinCS")

BunpinDone(t) == PinDone(t, "bunpinCS", "hold", -1)

\* A thread that does not hold the sleep lock of a pinned b calls bunpin(b):
\* idx = hash(b->blockno).
BunpinLate(t, b) ==
  /\ pc[t] = "idle"
  /\ pins[b] > Cardinality(Unpinning(b))
  /\ tb' = [tb EXCEPT ![t] = b]
  /\ ti' = [ti EXCEPT ![t] = hash(blockno[b])]
  /\ pc' = [pc EXCEPT ![t] = "bunpinLateAcq"]
  /\ UNCHANGED <<hashbucket, dev, blockno, valid, refcnt, data, slock, lock,
                 overall_lock, disk, tdev, tblk, panicmsg,
                 pins, bw, wev, expect>>
  /\ UNCHANGED <<kvars, lvars>>

BunpinLateAcquire(t) == LockAcquire(t, "bunpinLateAcq", "bunpinLateCS")

BunpinLateDone(t) == PinDone(t, "bunpinLateCS", "idle", -1)

\* The steps of bread and bget after the call
BgetSteps(t) ==
  \/ BgetAcquire(t)
  \/ BgetHit(t)
  \/ BgetReuse(t)
  \/ BgetMiss(t)
  \/ BgetGlobal(t)
  \/ BgetLoop(t)
  \/ BgetSteal(t)
  \/ BgetNext(t)
  \/ BgetTarget(t)
  \/ BgetSplice(t)
  \/ AcquireSleep(t)
  \/ BreadCheck(t)

\* bread and bget, shared by the specifications below
Bget(t) ==
  \/ \E d \in Devs, n \in Blocks : Bread(t, d, n)
  \/ BgetSteps(t)

\* brelse and bpin by the holder of a buffer, bunpin by any thread
Release(t) ==
  \/ BrelseCall(t)
  \/ Brelse(t)
  \/ BrelseAcquire(t)
  \/ BrelseDone(t)
  \/ Bpin(t)
  \/ BpinAcquire(t)
  \/ BpinDone(t)
  \/ Bunpin(t)
  \/ BunpinAcquire(t)
  \/ BunpinDone(t)
  \/ \E b \in Bufs : BunpinLate(t, b)
  \/ BunpinLateAcquire(t)
  \/ BunpinLateDone(t)

\* Callers that read, pin and release blocks.
BNext == \E t \in Threads : Bget(t) \/ Release(t)

\* Callers that read, pin and release blocks of one bucket.
LRUNext ==
  \E t \in Threads :
    \/ \E d \in Devs, n \in SameBucket : Bread(t, d, n)
    \/ BgetSteps(t)
    \/ Release(t)

\* The steps of a thread inside bread and brelse, and the brelse call of a
\* thread that has a buffer: whatever it does after bread has begun.
Progress(t) ==
  \/ BgetSteps(t)
  \/ BrelseCall(t)
  \/ Brelse(t)
  \/ BrelseAcquire(t)
  \/ BrelseDone(t)

\* Callers that read a block and release it.
LiveNext == \E t \in Threads : Bget(t) \/ Progress(t)

\* Callers that read, change, write and release blocks, and callers that
\* call bwrite and brelse on buffers they do not hold.
IONext ==
  \E t \in Threads :
    \/ Bget(t)
    \/ \E c \in Data : Modify(t, c)
    \/ BwriteCall(t)
    \/ \E b \in Bufs : BwriteAny(t, b)
    \/ Bwrite(t)
    \/ BrelseCall(t)
    \/ \E b \in Bufs : BrelseAny(t, b)
    \/ Brelse(t)
    \/ BrelseAcquire(t)
    \/ BrelseDone(t)

\* ================================================= kalloc.c
Cores == 0..(NCPU - 1)
Pages == 1..NPages
NoPage == 0

\* After kinit: freerange has freed the pages in ascending order, each pushed
\* at the head of the list of the core that runs kinit.
KInit ==
  /\ freelist = [c \in Cores |->
                   IF c = 0 THEN [k \in 1..NPages |-> NPages + 1 - k]
                   ELSE << >>]
  /\ klock = [c \in Cores |-> NoThread]
  /\ kpc = [t \in Threads |-> "idle"]
  /\ kid = [t \in Threads |-> 0]
  /\ kr = [t \in Threads |-> NoPage]
  /\ ki = [t \in Threads |-> 0]
  /\ owned = [t \in Threads |-> {}]
  /\ ksnap = [t \in Threads |-> << >>]
  /\ palloc = [p \in Pages |-> 0]
  /\ base = [c \in Cores |-> IF c = 0 THEN NPages ELSE 0]
  /\ delta = [c \in Cores |-> 0]
  /\ cross = FALSE
  /\ kfull = [t \in Threads |-> FALSE]

\* A pop that takes the page at the end of the list
MutListLast(s) == IF s = << >> THEN NoPage ELSE s[Len(s)]

\* r = k->freelist
ListHead(s) == IF s = << >> THEN NoPage ELSE Head(s)

\* A pop that leaves the page on the list
MutKeepHead(s) == s

\* k->freelist = r->next
ListRest(s) == Tail(s)

\* r->next = k->freelist; k->freelist = r
ListPush(s, p) == <<p>> \o s

\* A kfree that pushes every page on the list of core 0
MutFreeCoreZero(t) == 0

\* The core whose list kfree pushes the page on: id = cpuid().
FreeCore(t) == kid[t]

\* The first core the probe loop looks at from i on: core id is skipped.
KSkip(i, id) == IF i = id THEN i + 1 ELSE i

\* kfree's check of pa: page aligned, not below end, below PHYSTOP.
ValidPa(pa) == pa \in Pages

\* History: thread t changes a free list, so the calls of the other threads
\* no longer run alone.
Disturb(t) ==
  ksnap' = [u \in Threads |-> IF u = t THEN ksnap[u] ELSE << >>]

\* Some core's free list holds a page.
SomePage(fl) == \E c \in Cores : fl[c] # << >>

\* History: the free lists change; a kalloc in progress during which every
\* list is empty at this moment is no longer one that always had a page to take.
StillFull ==
  kfull' = [u \in Threads |-> kfull[u] /\ SomePage(freelist')]

\* A thread calls kalloc() on core id: id = cpuid().
KallocCall(t, id) ==
  /\ kpc[t] = "idle"
  /\ kpc' = [kpc EXCEPT ![t] = "kalloc"]
  /\ kid' = [kid EXCEPT ![t] = id]
  /\ ksnap' = [ksnap EXCEPT ![t] = <<freelist>>]
  /\ kfull' = [kfull EXCEPT ![t] = SomePage(freelist)]
  /\ UNCHANGED <<freelist, klock, kr, ki, owned, palloc, base, delta, cross>>
  /\ UNCHANGED <<bvars, lvars>>

\* acquire(&k->lock) on the caller's own core
KallocAcquire(t) ==
  /\ kpc[t] = "kalloc"
  /\ klock[kid[t]] = NoThread
  /\ klock' = [klock EXCEPT ![kid[t]] = t]
  /\ kpc' = [kpc EXCEPT ![t] = "kpop"]
  /\ UNCHANGED <<freelist, kid, kr, ki, owned, ksnap, palloc, base, delta,
                 cross, kfull>>
  /\ UNCHANGED <<bvars, lvars>>

\* r = k->freelist; if(r) k->freelist = r->next; release(&k->lock)
KallocPop(t) ==
  LET id == kid[t]
      r == ListHead(freelist[id]) IN
  /\ kpc[t] = "kpop"
  /\ kr' = [kr EXCEPT ![t] = r]
  /\ klock' = [klock EXCEPT ![id] = NoThread]
  /\ IF r # NoPage
     THEN /\ freelist' = [freelist EXCEPT ![id] = ListRest(@)]
          /\ kpc' = [kpc EXCEPT ![t] = "kret"]
          /\ Disturb(t)
          /\ StillFull
          /\ UNCHANGED ki
     ELSE /\ ki' = [ki EXCEPT ![t] = KSkip(0, id)]
          /\ kpc' = [kpc EXCEPT ![t] = "kloop"]
          /\ UNCHANGED <<freelist, ksnap, kfull>>
  /\ UNCHANGED <<kid, owned, palloc, base, delta, cross>>
  /\ UNCHANGED <<bvars, lvars>>

\* The loop head of the probe: acquire(&k->lock) of the next core, or, all
\* cores done, leave the loop with r == 0.
KallocLoop(t) ==
  /\ kpc[t] = "kloop"
  /\ IF ki[t] < NCPU
     THEN /\ klock[ki[t]] = NoThread
          /\ klock' = [klock EXCEPT ![ki[t]] = t]
          /\ kpc' = [kpc EXCEPT ![t] = "kprobe"]
     ELSE /\ kpc' = [kpc EXCEPT ![t] = "kret"]
          /\ UNCHANGED klock
  /\ UNCHANGED <<freelist, kid, kr, ki, owned, ksnap, palloc, base, delta,
                 cross, kfull>>
  /\ UNCHANGED <<bvars, lvars>>

\* r = k->freelist of core i: take its head and break, or go on.
KallocProbe(t) ==
  LET i == ki[t]
      r == ListHead(freelist[i]) IN
  /\ kpc[t] = "kprobe"
  /\ kr' = [kr EXCEPT ![t] = r]
  /\ klock' = [klock EXCEPT ![i] = NoThread]
  /\ IF r # NoPage
     THEN /\ freelist' = [freelist EXCEPT ![i] = ListRest(@)]
          /\ kpc' = [kpc EXCEPT ![t] = "kret"]
          /\ delta' = IF cross THEN delta
                       ELSE [delta EXCEPT ![kid[t]] = @ + 1, ![i] = @ - 1]
          /\ Disturb(t)
          /\ StillFull
          /\ UNCHANGED ki
     ELSE /\ ki' = [ki EXCEPT ![t] = KSkip(i + 1, kid[t])]
          /\ kpc' = [kpc EXCEPT ![t] = "kloop"]
          /\ UNCHANGED <<freelist, ksnap, delta, kfull>>
  /\ UNCHANGED <<kid, owned, palloc, base, cross>>
  /\ UNCHANGED <<bvars, lvars>>

\* if(r) memset(r, 5, PGSIZE); return r
KallocReturn(t) ==
  LET r == kr[t] IN
  /\ kpc[t] = "kret"
  /\ owned' = [owned EXCEPT ![t] = IF r = NoPage THEN @ ELSE @ \cup {r}]
  /\ palloc' = IF r = NoPage \/ cross THEN palloc
               ELSE [palloc EXCEPT ![r] = kid[t]]
  /\ kpc' = [kpc EXCEPT ![t] = "idle"]
  /\ kr' = [kr EXCEPT ![t] = NoPage]
  /\ ki' = [ki EXCEPT ![t] = 0]
  /\ kid' = [kid EXCEPT ![t] = 0]
  /\ ksnap' = [ksnap EXCEPT ![t] = << >>]
  /\ kfull' = [kfull EXCEPT ![t] = FALSE]
  /\ UNCHANGED <<freelist, klock, base, delta, cross>>
  /\ UNCHANGED <<bvars, lvars>>

\* A thread calls kfree(pa) on core id, pa a page it owns or a null pointer:
\* panic("kfree") on a bad pa; memset(pa, 1, PGSIZE); id = cpuid().
Kfree(t, id, pa) ==
  /\ kpc[t] = "idle"
  /\ pa \in owned[t] \cup {NoPage}
  /\ IF ValidPa(pa)
     THEN /\ kpc' = [kpc EXCEPT ![t] = "kfree"]
          /\ kr' = [kr EXCEPT ![t] = pa]
          /\ kid' = [kid EXCEPT ![t] = id]
          /\ owned' = [owned EXCEPT ![t] = @ \ {pa}]
          /\ IF cross \/ palloc[pa] # id
             THEN /\ cross' = TRUE
                  /\ delta' = [c \in Cores |-> 0]
                  /\ base' = [c \in Cores |-> 0]
                  /\ palloc' = [p \in Pages |-> 0]
             ELSE /\ palloc' = [palloc EXCEPT ![pa] = 0]
                  /\ UNCHANGED <<cross, delta, base>>
     ELSE /\ kpc' = [kpc EXCEPT ![t] = "panic"]
          /\ UNCHANGED <<kr, kid, owned, cross, palloc, delta, base>>
  /\ UNCHANGED <<freelist, klock, ki, ksnap, kfull>>
  /\ UNCHANGED <<bvars, lvars>>

\* acquire(&k->lock) in kfree
KfreeAcquire(t) ==
  /\ kpc[t] = "kfree"
  /\ klock[FreeCore(t)] = NoThread
  /\ klock' = [klock EXCEPT ![FreeCore(t)] = t]
  /\ kpc' = [kpc EXCEPT ![t] = "kpush"]
  /\ UNCHANGED <<freelist, kid, kr, ki, owned, ksnap, palloc, base, delta,
                 cross, kfull>>
  /\ UNCHANGED <<bvars, lvars>>

\* r->next = k->freelist; k->freelist = r; release(&k->lock)
KfreePush(t) ==
  LET c == FreeCore(t) IN
  /\ kpc[t] = "kpush"
  /\ freelist' = [freelist EXCEPT ![c] = ListPush(@, kr[t])]
  /\ klock' = [klock EXCEPT ![c] = NoThread]
  /\ kpc' = [kpc EXCEPT ![t] = "idle"]
  /\ kr' = [kr EXCEPT ![t] = NoPage]
  /\ kid' = [kid EXCEPT ![t] = 0]
  /\ Disturb(t)
  /\ StillFull
  /\ UNCHANGED <<ki, owned, palloc, base, delta, cross>>
  /\ UNCHANGED <<bvars, lvars>>

\* No call in progress and every page on a free list.
Quiescent ==
  /\ \A t \in Threads : kpc[t] \in {"idle", "panic"} /\ owned[t] = {}

\* History: a run of allocate/free pairs begins here.
Mark ==
  /\ Quiescent
  /\ base' = [c \in Cores |-> Len(freelist[c])]
  /\ delta' = [c \in Cores |-> 0]
  /\ cross' = FALSE
  /\ UNCHANGED <<freelist, klock, kpc, kid, kr, ki, owned, ksnap, palloc,
                 kfull>>
  /\ UNCHANGED <<bvars, lvars>>

KNext ==
  \/ \E t \in Threads :
       \/ \E id \in Cores : KallocCall(t, id)
       \/ KallocAcquire(t)
       \/ KallocPop(t)
       \/ KallocLoop(t)
       \/ KallocProbe(t)
       \/ KallocReturn(t)
       \/ \E id \in Cores, pa \in Pages \cup {NoPage} : Kfree(t, id, pa)
       \/ KfreeAcquire(t)
       \/ KfreePush(t)
  \/ Mark

\* ================================================= specifications
Init == BInit /\ KInit
vars == <<bvars, lvars, kvars>>
\* The buffer cache, its callers reading, pinning and releasing blocks.
Spec == Init /\ [][BNext]_vars
\* The buffer cache, its callers writing blocks and misusing bwrite/brelse.
SpecIO == Init /\ [][IONext]_vars
\* The page allocator.
SpecK == Init /\ [][KNext]_vars
\* The buffer cache under fair scheduling and fair lock hand-off, with
\* callers that release every buffer they get: a thread that can take a step
\* again and again (a lock it waits for is free again and again) takes it.
SpecLive ==
  Init /\ [][LiveNext]_vars /\ \A t \in Threads : SF_vars(Progress(t))
\* The buffer cache, every block read hashing to bucket 0.
SpecLRU == Init /\ [][LRUNext]_vars

\* ================================================= claims
\* The thread has b from bread and has not yet released its sleep lock.
InPossession(t) ==
  pc[t] \in {"bread", "hold", "bpinAcq", "bpinCS", "bunpinAcq", "bunpinCS",
             "brelse", "bwrite"}

AllHeld == \A b \in Bufs : refcnt[b] > 0

\* C1: no two distinct buffers with refcnt > 0 carry the same
\* (device, blockNumber), in any state of any interleaving of bread calls.
C1_NoDuplicateCaching ==
  \A b1, b2 \in Bufs :
    (b1 # b2 /\ refcnt[b1] > 0 /\ refcnt[b2] > 0)
      => ~(dev[b1] = dev[b2] /\ blockno[b1] = blockno[b2])

\* C2: a thread that has a buffer from bread holds the buffer's sleep lock,
\* and no two threads are in possession of the same buffer at once.
C2_ExclusivePossession ==
  /\ \A t \in Threads : InPossession(t) => slock[tb[t]] = t
  /\ \A t, u \in Threads :
       (t # u /\ InPossession(t) /\ InPossession(u)) => tb[t] # tb[u]

\* C2's case: one thread has the buffer while another, in bread for the same
\* buffer, waits for its sleep lock.
C2_Witness ==
  \E t, u \in Threads :
    /\ t # u
    /\ pc[t] = "hold"
    /\ pc[u] = "sleep"
    /\ tb[t] = tb[u]

\* C3: a step changes a buffer's (device, blockNumber), clears its valid flag
\* or takes it out of its bucket only if the buffer's refcnt was 0.
C3_NoRepurposeWhileReferenced ==
  [][\A b \in Bufs :
       (\/ dev'[b] # dev[b]
        \/ blockno'[b] # blockno[b]
        \/ (valid[b] = 1 /\ valid'[b] = 0)
        \/ \E k \in Buckets :
             InList(hashbucket[k], b) /\ ~InList(hashbucket'[k], b))
       => refcnt[b] = 0]_vars

\* C3's case: a migration has taken a buffer from a later bucket after it
\* passed over a referenced buffer in a bucket it scanned before.
C3_Witness ==
  \E t \in Threads, b \in Bufs, k \in Buckets :
    /\ pc[t] = "target"
    /\ b # tb[t]
    /\ refcnt[b] > 0
    /\ k < ti[t] /\ k # Key(t)
    /\ InList(hashbucket[k], b)

\* C4: a bread that began after the copy of its block that holds the content
\* last written with bwrite was released and evicted, the block not written
\* since, returns a valid buffer whose payload is that content.
C4_RoundTrip ==
  \A t \in Threads :
    (pc[t] = "hold" /\ expect[t])
      => /\ valid[tb[t]] = 1
         /\ data[tb[t]] = disk[<<dev[tb[t]], blockno[tb[t]]>>]

\* C5: bwrite(b) or brelse(b) by a thread that does not hold b's sleep lock
\* ends in the panic of that function and changes nothing else: no device
\* write, no lock released, refcnt and the bucket lists as they were.
C5_ContractViolation ==
  [][\A t \in Threads :
       (/\ pc[t] \in {"bwrite", "brelse"}
        /\ slock[tb[t]] # t
        /\ pc'[t] # pc[t])
       => /\ pc'[t] = "panic"
          /\ panicmsg'[t] = pc[t]
          /\ UNCHANGED <<disk, data, slock, lock, overall_lock, refcnt,
                         hashbucket, dev, blockno, valid>>]_vars

\* C5's case: a thread has panicked in bwrite or brelse, called on a buffer
\* whose sleep lock another thread holds.
C5_Witness ==
  \E t, u \in Threads :
    /\ t # u
    /\ pc[t] = "panic"
    /\ panicmsg[t] \in {"bwrite", "brelse"}
    /\ slock[tb[t]] = u

\* The block of the thread's bread is in no buffer.
NotCached(t) == \A b \in Bufs : ~Matches(b, tdev[t], tblk[t])

\* The locks of the cache the thread holds.
HoldsNoLock(t) ==
  /\ overall_lock # t
  /\ \A k \in Buckets : lock[k] # t

\* C6: while every buffer has refcnt > 0, a bread of a block that is in no
\* buffer goes step by step through the scan of its bucket and of every other
\* bucket to panic("bget: no buffers"): it gets no buffer, never waits for a
\* sleep lock, and holds no spinlock once it has panicked.
C6_Exhaustion ==
  [][\A t \in Threads :
       (AllHeld /\ NotCached(t) /\ pc'[t] # pc[t])
       => /\ pc[t] = "bget" => pc'[t] = "scan"
          /\ pc[t] = "scan" => pc'[t] = "global"
          /\ pc[t] = "global" => pc'[t] = "loop"
          /\ (pc[t] = "loop" /\ ti[t] < NBUCKETS) => pc'[t] = "scanI"
          /\ pc[t] = "scanI" => (pc'[t] = "loop" /\ ti'[t] > ti[t])
          /\ (pc[t] = "loop" /\ ti[t] >= NBUCKETS)
               => /\ pc'[t] = "panic"
                  /\ panicmsg'[t] = "bget: no buffers"
                  /\ HoldsNoLock(t)']_vars

\* C6's case: every buffer is pinned or held, the other threads are at rest,
\* and a thread has panicked in bget.
C6_Witness ==
  \E t \in Threads :
    /\ pc[t] = "panic"
    /\ panicmsg[t] = "bget: no buffers"
    /\ AllHeld
    /\ \A u \in Threads : u # t => pc[u] \in {"idle", "hold"}

\* C7: bget panics only in a state where no buffer of any bucket has
\* refcnt == 0.
C7_PanicOnlyWhenNoneFree ==
  [][\A t \in Threads :
       (pc[t] # "panic" /\ pc'[t] = "panic"
        /\ panicmsg'[t] = "bget: no buffers")
       => \A b \in Bufs : refcnt[b] > 0]_vars

\* The places of page p on the free lists.
ListPlaces(p) ==
  UNION {{<<c, k>> : k \in {j \in 1..Len(freelist[c]) : freelist[c][j] = p}} :
         c \in Cores}

\* The threads that have page p: returned to them by kalloc, or in their hands
\* inside kalloc (popped) or kfree (not yet pushed).
PageHolders(p) == {t \in Threads : p \in owned[t] \/ kr[t] = p}

\* C8: every page is on exactly one free list exactly once, or in the hands
\* of exactly one thread, and never both.
C8_SingleOwner ==
  \A p \in Pages :
    /\ Cardinality(ListPlaces(p)) + Cardinality(PageHolders(p)) = 1
    /\ \A t \in Threads : ~(p \in owned[t] /\ kr[t] = p)

\* C8's case: a kalloc is about to return a page taken from a peer's list
\* while another thread, in kfree, is about to push a page on a list.
C8_Witness ==
  \E t, u \in Threads :
    /\ t # u
    /\ kpc[t] = "kret" /\ kr[t] # NoPage /\ ki[t] # 0
    /\ kpc[u] = "kpush"

RECURSIVE SumLen(_)
SumLen(n) == IF n = 0 THEN 0 ELSE Len(freelist[n - 1]) + SumLen(n - 1)

RECURSIVE SumBase(_)
SumBase(n) == IF n = 0 THEN 0 ELSE base[n - 1] + SumBase(n - 1)

\* C9 as claimed: after a run of allocate/free pairs, each page freed on the
\* core that allocated it, every core's list is as long as before the run.
C9_EachLengthReturns ==
  (Quiescent /\ ~cross) => \A c \in Cores : Len(freelist[c]) = base[c]

\* C9 amended: after such a run the lists hold as many pages in total as
\* before; a core's list is longer by the pages it took from peers' lists and
\* shorter by the pages peers took from its list, so it is as long as before
\* when every page of the run came from the allocating core's own list.
C9_LengthsReturnUpToSteals ==
  (Quiescent /\ ~cross)
    => /\ \A c \in Cores : Len(freelist[c]) = base[c] + delta[c]
       /\ SumLen(NCPU) = SumBase(NCPU)

\* C9's case: a run of pairs is over in which a core with an empty list took
\* a page from a peer and freed it on its own list.
C9_Witness ==
  /\ Quiescent
  /\ ~cross
  /\ \E c \in Cores : delta[c] > 0 /\ base[c] = 0

\* The first core in probe order, other than id, whose list in fl is not
\* empty (NCPU when there is none).
FirstPeer(fl, id) ==
  LET cs == {c \in Cores : c # id /\ fl[c] # << >>}
  IN IF cs = {} THEN NCPU ELSE CHOOSE c \in cs : \A c2 \in cs : c <= c2

\* C10: a kalloc on a core whose list was empty when it was called, some
\* peer's list being non-empty, and during which no other thread changed a
\* list, returns the head of the first non-empty peer list in probe order;
\* that list has lost exactly this page and every other list is as it was.
C10_StealFromFirstPeer ==
  \A t \in Threads :
    (/\ kpc[t] = "kret"
     /\ ksnap[t] # << >>
     /\ ksnap[t][1][kid[t]] = << >>
     /\ FirstPeer(ksnap[t][1], kid[t]) # NCPU)
    => LET fl == ksnap[t][1]
           j == FirstPeer(fl, kid[t])
       IN /\ kr[t] = Head(fl[j])
          /\ freelist = [fl EXCEPT ![j] = Tail(fl[j])]

\* C10's case: such a kalloc returns a page of a list of two pages, after it
\* passed over a peer whose list was empty.
C10_Witness ==
  \E t \in Threads :
    /\ kpc[t] = "kret"
    /\ ksnap[t] # << >>
    /\ kr[t] # NoPage
    /\ ksnap[t][1][kid[t]] = << >>
    /\ \E c \in Cores : c < ki[t] /\ c # kid[t] /\ ksnap[t][1][c] = << >>
    /\ Len(ksnap[t][1][ki[t]]) > 1

\* C11: kalloc returns 0 only when no memory can be allocated.  The claim
\* says it never returns 0 while some free list holds a page; this follows
\* from it: a kalloc during which, at every moment, some core's free list
\* held a page does not return 0.
C11_ZeroOnlyWhenNoPage ==
  \A t \in Threads :
    (kpc[t] = "kret" /\ kr[t] = NoPage) => ~kfull[t]

\* The spinlock of the cache a thread is about to acquire: <<"bucket", k>> or
\* <<"overall">>, or << >> when its next step is no acquire.
WaitsFor(t) ==
  CASE pc[t] \in {"bget", "target"} -> <<"bucket", Key(t)>>
    [] pc[t] = "global" -> <<"overall">>
    [] pc[t] = "loop" /\ ti[t] < NBUCKETS -> <<"bucket", ti[t]>>
    [] pc[t] \in {"brelseAcq", "bpinAcq", "bunpinAcq", "bunpinLateAcq"}
         -> <<"bucket", ti[t]>>
    [] OTHER -> << >>

\* The thread that holds spinlock l, or NoThread.
Holder(l) ==
  IF l = << >> THEN NoThread
  ELSE IF l[1] = "overall" THEN overall_lock
  ELSE lock[l[2]]

\* Every thread of S waits for a spinlock held by a thread of S.
CircularWait(S) == S # {} /\ \A t \in S : Holder(WaitsFor(t)) \in S

\* C12: in no reachable state is there a set of threads each of which waits
\* for a bucket lock or the global lock held by a thread of the set.
C12_NoCircularWait == \A S \in SUBSET Threads : ~CircularWait(S)

\* C12's case: a migration that holds the global lock and the lock of its
\* source bucket waits for the lock of its target bucket, held by a thread
\* inside brelse, bpin, bunpin or a scan of that bucket.
C12_Witness ==
  \E t, u \in Threads :
    /\ t # u
    /\ pc[t] = "target"
    /\ overall_lock = t /\ lock[ti[t]] = t
    /\ lock[Key(t)] = u

\* The bucket locks the thread holds.
LocksOf(t) == {k \in Buckets : lock[k] = t}

\* The thread is in the search of the other buckets, from after
\* acquire(&bcache.overall_lock) to the release after the splice or the panic.
InSearch(t) == pc[t] \in {"loop", "scanI", "target", "splice"}

\* The thread has unlinked a buffer from its source bucket and not yet
\* finished the splice into the target bucket.
Migrating(t) == pc[t] \in {"target", "splice"}

\* C13: a thread holds two bucket locks only while it holds the global lock
\* (and never more than two); it holds the global lock during the whole search
\* of the other buckets up to the splice, and only then; so at most one thread
\* holds more than one bucket lock and at most one migration is in flight.
C13_LockDiscipline ==
  /\ \A t \in Threads :
       /\ Cardinality(LocksOf(t)) <= 2
       /\ Cardinality(LocksOf(t)) = 2 => overall_lock = t
       /\ InSearch(t) <=> overall_lock = t
  /\ \A t, u \in Threads :
       (Cardinality(LocksOf(t)) > 1 /\ Cardinality(LocksOf(u)) > 1) => t = u
  /\ \A t, u \in Threads : (Migrating(t) /\ Migrating(u)) => t = u

\* C13's case: a migration holds the global lock and the locks of its source
\* and target bucket while another thread, its own bucket without an unused
\* buffer, waits for the global lock to start its search.
C13_Witness ==
  \E t, u \in Threads :
    /\ t # u
    /\ pc[t] = "splice"
    /\ Cardinality(LocksOf(t)) = 2
    /\ pc[u] = "global"

\* The thread is at a suspension point: about to acquiresleep(&b->lock), or
\* about to call virtio_disk_rw in bread or in bwrite.
AtSuspension(t) == pc[t] \in {"sleep", "bread", "bwrite"}

\* C14: a thread that starts to acquire a buffer's sleep lock or issues a
\* device read or write holds neither a bucket lock nor the global lock.
C14_NoSpinlockAtSuspension ==
  \A t \in Threads : AtSuspension(t) => HoldsNoLock(t)

\* C14's case: a thread is about to sleep on a buffer's lock, held by a
\* thread that is about to write the buffer to the device.
C14_Witness ==
  \E t, u \in Threads :
    /\ t # u
    /\ pc[t] = "sleep"
    /\ slock[tb[t]] = u
    /\ pc[u] = "bwrite"

\* The buckets whose list holds buffer b.
BucketsOf(b) == {k \in Buckets : InList(hashbucket[k], b)}

\* Buffer b is unlinked for a migration: between the unlink from the source
\* bucket and the splice into the target bucket.
InTransit(b) == \E t \in Threads : Migrating(t) /\ tb[t] = b

\* Outside the unlink/splice section of a migration, a buffer with refcnt > 0
\* is linked in bucket hash(blockno).
ReferencedInHashBucket ==
  \A b \in Bufs :
    (refcnt[b] > 0 /\ ~InTransit(b)) => hash(blockno[b]) \in BucketsOf(b)

\* C15: after every step, every buffer with refcnt > 0 that is not unlinked
\* for a migration is linked in bucket hash(blockno); and a step of brelse,
\* bpin or bunpin that changes a buffer's refcnt or the bucket lists is taken
\* by a thread that holds the lock of the bucket, and of the only bucket, the
\* buffer is linked in, and changes no other buffer's refcnt and no other list.
C15_HashBucketLock ==
  [][/\ ReferencedInHashBucket'
     /\ \A t \in Threads :
          (/\ pc[t] \in {"brelseCS", "bpinCS", "bunpinCS", "bunpinLateCS"}
           /\ pc'[t] # pc[t])
          => /\ BucketsOf(tb[t]) = {ti[t]}
             /\ lock[ti[t]] = t
             /\ \A b \in Bufs : b # tb[t] => refcnt'[b] = refcnt[b]
             /\ \A k \in Buckets :
                  k # ti[t] => hashbucket'[k] = hashbucket[k]]_vars

\* C15's case: a referenced buffer, brought into another bucket than the one
\* binit put it in, is about to be released under the lock of that bucket.
C15_Witness ==
  \E t \in Threads :
    /\ pc[t] = "brelseCS"
    /\ refcnt[tb[t]] > 0
    /\ hash(tb[t]) # hash(blockno[tb[t]])

\* The places of buffer b on the bucket lists.
Places(b) ==
  UNION {{<<k, j>> : j \in {i \in 1..Len(hashbucket[k]) : hashbucket[k][i] = b}} :
         k \in Buckets}

\* C16 as claimed: at any instant every buffer is linked in exactly one
\* bucket's list, exactly once.
C16_Partition == \A b \in Bufs : Cardinality(Places(b)) = 1

\* Every buffer is linked exactly once in exactly one bucket, except the
\* buffer a migration has unlinked and not yet spliced, which is in no list.
PartitionButInTransit ==
  \A b \in Bufs : Cardinality(Places(b)) = IF InTransit(b) THEN 0 ELSE 1

\* C16 amended: every buffer is linked exactly once in exactly one bucket,
\* except, between the unlink and the splice of a migration, the one buffer
\* being moved, which is in no list; a buffer leaves a bucket only by the
\* unlink of a migration that scans that bucket and enters one only by the
\* splice into the bucket of the migrating thread's block, so in-bucket
\* reuse, brelse, bpin and bunpin keep every buffer in its bucket.
C16_PartitionOutsideMigration ==
  [][/\ PartitionButInTransit'
     /\ \A b \in Bufs :
          BucketsOf(b)' # BucketsOf(b)
          => \E t \in Threads :
               /\ tb'[t] = b
               /\ \/ /\ pc[t] = "scanI" /\ pc'[t] = "target"
                     /\ BucketsOf(b) = {ti[t]} /\ BucketsOf(b)' = {}
                  \/ /\ pc[t] = "splice" /\ pc'[t] = "sleep"
                     /\ BucketsOf(b) = {} /\ BucketsOf(b)' = {Key(t)}]_vars

\* C16's case: a buffer is unlinked for a migration (in no list) while the
\* other buffers are linked once each, one of them in a bucket an earlier
\* migration brought it to.
C16_Witness ==
  \E b, c \in Bufs :
    /\ InTransit(b)
    /\ Places(b) = {}
    /\ c # b
    /\ BucketsOf(c) # {hash(c)}
    /\ Cardinality(Places(c)) = 1

\* The threads that have acquired buffer b in bget (hit, in-bucket reuse or
\* migration) and whose brelse has not yet decremented its refcnt.
Holders(b) ==
  {t \in Threads :
     /\ tb[t] = b
     /\ pc[t] \in {"target", "splice", "sleep", "bread", "hold", "bpinAcq",
                    "bpinCS", "bunpinAcq", "bunpinCS", "brelse", "brelseAcq",
                    "brelseCS"}}

\* C17: for every buffer, refcnt is the number of threads that acquired it
\* in bget and have not yet released it with brelse, those blocked on its
\* sleep lock included, plus the number of bpin calls not yet matched by
\* bunpin; it is never negative, and 0 exactly when there is no holder and
\* no pin.
C17_RefcntCountsHolders ==
  \A b \in Bufs :
    /\ refcnt[b] = Cardinality(Holders(b)) + pins[b]
    /\ refcnt[b] >= 0
    /\ refcnt[b] = 0 <=> (Holders(b) = {} /\ pins[b] = 0)

\* C17's case: a buffer held by one thread, waited for by another in
\* acquiresleep, and pinned: refcnt 3.
C17_Witness ==
  \E b \in Bufs, t, u \in Threads :
    /\ pc[t] = "hold" /\ tb[t] = b
    /\ pc[u] = "sleep" /\ tb[u] = b
    /\ pins[b] = 1
    /\ refcnt[b] = 3

\* The place of b in sequence s, 0 when it is not in it.
Pos(s, b) ==
  IF InList(s, b) THEN CHOOSE j \in 1..Len(s) : s[j] = b ELSE 0

\* By the record r (latest release first), b was released no later than c:
\* b has no release on record, or both have and b's is the earlier one.
ReleasedBefore(r, b, c) ==
  \/ Pos(r, b) = 0
  \/ Pos(r, c) # 0 /\ Pos(r, b) > Pos(r, c)

\* The step is thread t's in-bucket reuse: a miss served from the block's
\* own bucket.
ReuseStep(t) ==
  /\ pc[t] = "scan" /\ pc'[t] = "sleep"
  /\ FindCached(Key(t), tdev[t], tblk[t]) = NoBuf

\* The buffers of bucket k with refcnt == 0, other than b.
OtherFree(k, b) ==
  {c \in Bufs : c # b /\ InList(hashbucket[k], c) /\ refcnt[c] = 0}

\* C18 as claimed, a release being a call of brelse: the buffer an in-bucket
\* reuse repurposes is, among the refcnt == 0 buffers of the bucket, the one
\* brelse was called on least recently (buffers never released first).
C18_ReusesLeastRecentlyReleased ==
  [][\A t \in Threads :
       ReuseStep(t)
       => \A c \in OtherFree(Key(t), tb'[t]) :
            ReleasedBefore(rel[Key(t)], tb'[t], c)]_vars

\* C18 amended: a brelse that drops refcnt to 0 moves the buffer to the head
\* of its bucket's list, the order of the others kept; a migration links
\* the buffer at the tail of the target bucket; an in-bucket reuse takes the
\* refcnt == 0 buffer nearest the tail, which among the refcnt == 0 buffers
\* of the bucket is the one whose last brelse that dropped refcnt to 0 is
\* the least recent, buffers that no brelse has dropped to 0 since they came
\* into the bucket first; no other step changes a bucket's list.
C18_PerBucketLRU ==
  [][\A t \in Threads :
       /\ (pc[t] = "brelseCS" /\ pc'[t] # pc[t] /\ refcnt'[tb[t]] = 0)
            => hashbucket'[ti[t]]
                 = <<tb[t]>> \o Without(hashbucket[ti[t]], tb[t])
       /\ (pc[t] = "brelseCS" /\ pc'[t] # pc[t] /\ refcnt'[tb[t]] # 0)
            => hashbucket' = hashbucket
       /\ (pc[t] \in {"bpinCS", "bunpinCS", "bunpinLateCS"} /\ pc'[t] # pc[t])
            => hashbucket' = hashbucket
       /\ (pc[t] = "splice" /\ pc'[t] # pc[t])
            => hashbucket'[Key(t)] = Append(hashbucket[Key(t)], tb[t])
       /\ ReuseStep(t)
            => /\ hashbucket' = hashbucket
               /\ refcnt[tb'[t]] = 0
               /\ \A c \in OtherFree(Key(t), tb'[t]) :
                    /\ Pos(hashbucket[Key(t)], c)
                         < Pos(hashbucket[Key(t)], tb'[t])
                    /\ ReleasedBefore(relz[Key(t)], tb'[t], c)]_vars

\* C18's case: an in-bucket reuse is about to choose between two refcnt == 0
\* buffers of its bucket, both dropped to 0 by a brelse since they came into
\* the bucket.
C18_Witness ==
  \E t \in Threads, b, c \in Bufs :
    /\ pc[t] = "scan"
    /\ FindCached(Key(t), tdev[t], tblk[t]) = NoBuf
    /\ b # c
    /\ refcnt[b] = 0 /\ refcnt[c] = 0
    /\ Pos(relz[Key(t)], b) # 0 /\ Pos(relz[Key(t)], c) # 0
    /\ Pos(hashbucket[Key(t)], b) # 0 /\ Pos(hashbucket[Key(t)], c) # 0

\* bread has returned to thread t a valid buffer whose sleep lock t holds.
Returned(t) ==
  pc[t] = "hold" /\ valid[tb[t]] = 1 /\ slock[tb[t]] = t

\* C19: under fair scheduling and fair lock hand-off, with callers that
\* release every buffer they get and hold no buffer while they wait for one,
\* every bread call leads to its return with a valid buffer locked by the
\* caller or to panic("bget: no buffers").
C19_BreadProgress ==
  \A t \in Threads :
    (pc[t] = "bget")
      ~> (Returned(t) \/ (pc[t] = "panic" /\ panicmsg[t] = "bget: no buffers"))

\* C19's case: a bread waits in acquiresleep for a buffer whose holder has
\* called brelse and not yet released the sleep lock.
C19_Witness ==
  \E t, u \in Threads :
    /\ pc[t] = "sleep"
    /\ slock[tb[t]] = u
    /\ pc[u] = "brelse"

\* Thread t, inside the lock of its block's bucket, finds the block cached
\* there or an unused buffer there.
ServedLocally(t) ==
  /\ pc[t] = "scan"
  /\ \/ FindCached(Key(t), tdev[t], tblk[t]) # NoBuf
     \/ FindFree(Key(t)) # NoBuf

\* Thread u holds the global lock for a search or migration whose source
\* bucket and target bucket are not bucket k.
MigratesElsewhere(u, k) ==
  /\ u # NoThread
  /\ overall_lock = u
  /\ InSearch(u)
  /\ k # Key(u)
  /\ k # ti[u]

\* C20: a bread served from its block's own bucket (hit or unused buffer)
\* takes only that bucket's lock: the step that serves it releases that lock,
\* leaves the global lock and every other bucket lock as they are, and the
\* thread goes on to acquiresleep holding no spinlock; and while another
\* thread holds the global lock for a migration between other buckets (and
\* no third thread is inside this bucket's lock), the bread can take its
\* bucket lock and finish its bucket-lock section.
C20_BucketParallelHits ==
  [][\A t \in Threads :
       /\ (pc[t] = "bget" /\ pc'[t] # pc[t])
            => /\ pc'[t] = "scan"
               /\ overall_lock' = overall_lock
               /\ \A k \in Buckets : k # Key(t) => lock'[k] = lock[k]
       /\ (ServedLocally(t) /\ pc'[t] # pc[t])
            => /\ pc'[t] = "sleep"
               /\ LocksOf(t) = {Key(t)}
               /\ overall_lock # t
               /\ overall_lock' = overall_lock
               /\ \A k \in Buckets : k # Key(t) => lock'[k] = lock[k]
               /\ lock'[Key(t)] = NoThread
       /\ \A u \in Threads \ {t} :
            (/\ MigratesElsewhere(u, Key(t))
             /\ \A w \in Threads \ {t, u} : lock[Key(t)] # w)
            => /\ pc[t] = "bget" => ENABLED BgetAcquire(t)
               /\ ServedLocally(t) => ENABLED (BgetHit(t) \/ BgetReuse(t))]_vars

\* C20's case: a thread has found its block in the block's bucket and holds
\* that bucket's lock, while another thread holds the global lock and the
\* lock of the source bucket of a migration into a third bucket.
C20_Witness ==
  \E t, u \in Threads :
    /\ t # u
    /\ pc[t] = "scan"
    /\ FindCached(Key(t), tdev[t], tblk[t]) # NoBuf
    /\ pc[u] = "target"
    /\ MigratesElsewhere(u, Key(t))
====
